---- MODULE Spec2Model ----
(***************************************************************************)
(* Model of main.go: a load generator that starts one reporter goroutine   *)
(* (printRate) and *clients producer goroutines; every produced record's   *)
(* promise adds to two process-wide atomic counters which the reporter     *)
(* swaps to zero once per tick.                                            *)
(*                                                                         *)
(* Flag values that are strings are modelled as tuples of one-character    *)
(* strings so that strings.ToLower can be computed character by character. *)
(* The kgo client is an external library; only what main.go relies on is   *)
(* modelled: NewClient returns a fresh handle or an error, Produce buffers *)
(* a record unless MaxBufferedRecords records are buffered (then it        *)
(* blocks), and the promise of a buffered record is called exactly once,   *)
(* on some other goroutine, with a nil or a non-nil error.                 *)
(***************************************************************************)
EXTENDS Integers, Sequences, FiniteSets

\* ---------------------------------------------------------------- bounds
\* Records the workers submit, all together, before the model stops them.
MaxRecords == 2
\* Ticks the reporter receives before the model stops it.
MaxTicks == 2
\* formatValue is tried on every num in 0..MaxSeq (and a few longer ones)
\* and on every slice length in 0..MaxLen.
MaxSeq == 12
MaxLen == 6

\* ----------------------------------------------------------- input values
\* Values of -record-size tried: invalid ones, a small one, and 64 MiB, for
\* which MaxBufferedRecords is 1.
RecordSizeInputs == {-1, 0, 10, 67108864}
\* Values of -num-clients tried.
ClientsInputs == {0, 1, 2}
\* Values of -compression tried.
CompressionInputs == {<<"n","o","n","e">>, <<"G","Z","I","P">>, <<"b","o","g","u","s">>}
\* Values of -log-level tried.
LogLevelInputs == {<<>>, <<"b","o","g","u","s">>}
\* Values of num formatValue is tried on: one to four digits.
FormatNumInputs == (0..MaxSeq) \cup {99, 100, 101, 1000}
\* The err a promise or NewClient can hand back.
Errs == {"nil", "err"}

\* A client variable before NewClient has returned.
NilClient == <<>>

\* Goroutine indexes of the worker loop, i = 0 .. *clients-1.
WorkerIds == 0..1

\* ------------------------------------------------------------------ state
VARIABLES
    recordSize, clients, compression, logLevel, \* parsed flags
    rateRecs, rateBytes,                        \* the two atomic counters
    mainPc, i, wg,                              \* main goroutine
    rpc, ticks, recs, bytes, stdout,                  \* printRate goroutine
    wpc, client, num, sent,                     \* worker goroutines
    stderr, exited, exitCode,                   \* process
    quietDrains,                                \* history: see SwapRecs
    fpc, fnum, fv, fb, fn                       \* formatValue(fnum, fv): pc, v, b, n

flagVars == <<recordSize, clients, compression, logLevel>>
mainVars == <<mainPc, i, wg>>
reporterVars == <<rpc, ticks, recs, bytes, stdout>>
workerVars == <<wpc, client, num, sent>>
procVars == <<stderr, exited, exitCode>>
fmtVars == <<fpc, fnum, fv, fb, fn>>
progVars == <<flagVars, rateRecs, rateBytes, mainVars, reporterVars,
              workerVars, procVars, quietDrains>>
vars == <<progVars, fmtVars>>

\* ---------------------------------------------------------------- helpers
UpperLetters == <<"A","B","C","D","E","F","G","H","I","J","K","L","M",
                  "N","O","P","Q","R","S","T","U","V","W","X","Y","Z">>
LowerLetters == <<"a","b","c","d","e","f","g","h","i","j","k","l","m",
                  "n","o","p","q","r","s","t","u","v","w","x","y","z">>

ToLowerChar(c) ==
    IF \E k \in DOMAIN UpperLetters : UpperLetters[k] = c
    THEN LowerLetters[CHOOSE k \in DOMAIN UpperLetters : UpperLetters[k] = c]
    ELSE c

\* strings.ToLower
ToLower(s) == [k \in DOMAIN s |-> ToLowerChar(s[k])]

\* The cases of the log-level switch.
LogLevelCases == {<<>>, <<"d","e","b","u","g">>, <<"i","n","f","o">>,
                  <<"w","a","r","n">>, <<"e","r","r","o","r">>}

\* The cases of the compression switch.
CompressionCases == {<<"n","o","n","e">>, <<"g","z","i","p">>,
                     <<"s","n","a","p","p","y">>, <<"l","z","4">>,
                     <<"z","s","t","d">>}

\* The option left out: the library's own limit of 10,000 records applies.
MaxBufferedRecordsDefault == 10 * 1000

\* kgo.MaxBufferedRecords(50<<20 / *recordSize + 1)
MaxBufferedRecords == (50 * 2^20) \div recordSize + 1

\* ConfigError without its last check.
ConfigErrorNoClients ==
    IF recordSize <= 0 THEN "record bytes must be larger than zero"
    ELSE IF ToLower(logLevel) \notin LogLevelCases THEN "unrecognized log level"
    ELSE IF ToLower(compression) \notin CompressionCases THEN "unrecognized compression"
    ELSE ""

\* The message main dies with, or "" when every check passes; the checks
\* run in source order.
ConfigError ==
    IF recordSize <= 0 THEN "record bytes must be larger than zero"
    ELSE IF ToLower(logLevel) \notin LogLevelCases THEN "unrecognized log level"
    ELSE IF ToLower(compression) \notin CompressionCases THEN "unrecognized compression"
    ELSE IF clients <= 0 THEN "number of clients must be positive"
    ELSE ""

\* A chk that ignores err.
chkNeverDies(err) == FALSE

\* chk's test: it dies exactly when err is not nil.
chkDies(err) == err # "nil"

\* die, up to its call of os.Exit: the diagnostic goes to standard error.
die(msg) == stderr' = Append(stderr, msg)

\* Records of worker w the client holds: buffered by Produce and whose
\* promise has not returned.
Buffered(w) ==
    Cardinality({k \in DOMAIN sent[w] : sent[w][k].st # "done"})

\* Records submitted so far by all workers.
TotalSent == Len(sent[0]) + Len(sent[1])

\* Promises that have added to rateRecs and not yet to rateBytes.
MidCallbacks ==
    {<<w, k>> \in WorkerIds \X (1..MaxRecords) :
        k \in DOMAIN sent[w] /\ sent[w][k].st = "recsAdded"}

\* A goroutine is inside die, between the Fprintf and os.Exit.
Dying ==
    \/ mainPc = "exit"
    \/ \E w \in WorkerIds : wpc[w] = "exit"
    \/ \E w \in WorkerIds : \E k \in DOMAIN sent[w] : sent[w][k].st = "failed"

\* ------------------------------------------------------------------- Init
Init ==
    /\ recordSize \in RecordSizeInputs
    /\ clients \in ClientsInputs
    /\ compression \in CompressionInputs
    /\ logLevel \in LogLevelInputs
    /\ rateRecs = 0
    /\ rateBytes = 0
    /\ mainPc = "configure"
    /\ i = 0
    /\ wg = 0
    /\ rpc = "unstarted"
    /\ ticks = 0
    /\ recs = 0
    /\ bytes = 0
    /\ stdout = [lines |-> 0, bytes |-> 0, recs |-> 0]
    /\ wpc = [w \in WorkerIds |-> "unstarted"]
    /\ client = [w \in WorkerIds |-> NilClient]
    /\ num = [w \in WorkerIds |-> 0]
    /\ sent = [w \in WorkerIds |-> <<>>]
    /\ stderr = <<>>
    /\ exited = FALSE
    /\ exitCode = 0
    /\ quietDrains = 0
    /\ fpc = "idle"
    /\ fnum = 0
    /\ fv = <<>>
    /\ fb = <<>>
    /\ fn = 0

\* ---------------------------------------------------------- main goroutine
\* main, lines 62-111: flag checks and option building, in source order.
MainConfigure ==
    /\ ~exited
    /\ mainPc = "configure"
    /\ IF ConfigError # ""
       THEN /\ die(ConfigError)
            /\ mainPc' = "exit"
       ELSE /\ mainPc' = "goPrintRate"
            /\ UNCHANGED stderr
    /\ UNCHANGED <<fmtVars, flagVars, rateRecs, rateBytes, i, wg, reporterVars,
                   workerVars, exited, exitCode, quietDrains>>

\* main, line 115: go printRate()
MainGoPrintRate ==
    /\ ~exited
    /\ mainPc = "goPrintRate"
    /\ rpc' = "tick"
    /\ mainPc' = "spawn"
    /\ UNCHANGED <<fmtVars, flagVars, rateRecs, rateBytes, i, wg, ticks, recs, bytes,
                   stdout, workerVars, procVars, quietDrains>>

\* A spawn loop that forgets wg.Add.
wgAddNone == wg

\* wg.Add(1)
wgAdd == wg + 1

\* main, lines 117-119 and 137: one iteration of the spawn loop.
MainSpawn ==
    /\ ~exited
    /\ mainPc = "spawn"
    /\ IF i < clients
       THEN /\ wg' = wgAdd
            /\ wpc' = [wpc EXCEPT ![i] = "newClient"]
            /\ i' = i + 1
            /\ UNCHANGED mainPc
       ELSE /\ mainPc' = "wgWait"
            /\ UNCHANGED <<wg, wpc, i>>
    /\ UNCHANGED <<fmtVars, flagVars, rateRecs, rateBytes, reporterVars, client, num,
                   sent, procVars, quietDrains>>

\* main, lines 139-140: wg.Wait() returns only when the counter is 0, and
\* main then returns, which ends the process with status 0.  No worker ever
\* calls wg.Done (the deferred call runs only when the goroutine returns, and
\* its loop has no exit), so a counter that is not 0 here stays so.
MainWait ==
    /\ ~exited
    /\ mainPc = "wgWait"
    /\ IF wg = 0
       THEN /\ exited' = TRUE
            /\ exitCode' = 0
            /\ mainPc' = "returned"
       ELSE /\ mainPc' = "blocked"
            /\ UNCHANGED <<exited, exitCode>>
    /\ UNCHANGED <<fmtVars, flagVars, rateRecs, rateBytes, i, wg, reporterVars,
                   workerVars, stderr, quietDrains>>

\* -------------------------------------------------------- worker goroutines
\* One handle shared by every worker.
SharedClientHandle(w) == <<"client", 0>>

\* The handle kgo.NewClient returns to worker w: a fresh client, named after
\* the goroutine that constructed it.
NewClientHandle(w) == <<"client", w>>

\* What kgo.NewClient hands worker w together with err: a client when err
\* is nil, no client otherwise.
NewClientResult(w, err) == IF err = "nil" THEN NewClientHandle(w) ELSE NilClient

\* lines 122-125: client, err := kgo.NewClient(opts...); chk(err, ...)
WorkerNewClient(w) ==
    /\ ~exited
    /\ wpc[w] = "newClient"
    /\ \E err \in Errs :
        /\ client' = [client EXCEPT ![w] = NewClientResult(w, err)]
        /\ IF chkDies(err)
           THEN /\ die("unable to initialize client")
                /\ wpc' = [wpc EXCEPT ![w] = "exit"]
           ELSE /\ wpc' = [wpc EXCEPT ![w] = "produce"]
                /\ UNCHANGED stderr
    /\ UNCHANGED <<fmtVars, flagVars, rateRecs, rateBytes, mainVars, reporterVars, num,
                   sent, exited, exitCode, quietDrains>>

\* The record a worker builds from its counter (lines 127-128); via is the
\* client it is handed to, st its place in that client and err what its
\* promise was called with ("none" until then).
NewRecord(w) ==
    [seq |-> num[w], via |-> client[w], st |-> "buffered", err |-> "none"]

\* A loop that forgets num++.
numIncNone(n) == n

\* num++
numInc(n) == n + 1

\* A loop that waits for the promise of its last record before the next
\* Produce.
WorkerProduceAwaitAck(w) ==
    /\ ~exited
    /\ wpc[w] = "produce"
    /\ TotalSent < MaxRecords
    /\ Buffered(w) = 0
    /\ sent' = [sent EXCEPT ![w] = Append(@, NewRecord(w))]
    /\ num' = [num EXCEPT ![w] = numInc(@)]
    /\ UNCHANGED <<fmtVars, flagVars, rateRecs, rateBytes, mainVars, reporterVars,
                   wpc, client, procVars, quietDrains>>

\* A loop whose num is declared outside the goroutine, shared by all.
WorkerProduceSharedNum(w) ==
    /\ ~exited
    /\ wpc[w] = "produce"
    /\ TotalSent < MaxRecords
    /\ Buffered(w) < MaxBufferedRecords
    /\ sent' = [sent EXCEPT ![w] = Append(@, NewRecord(w))]
    /\ num' = [u \in WorkerIds |-> numInc(num[w])]
    /\ UNCHANGED <<fmtVars, flagVars, rateRecs, rateBytes, mainVars, reporterVars,
                   wpc, client, procVars, quietDrains>>

\* lines 126-135, one iteration of the loop: build the record from num,
\* client.Produce it, num++.  Produce blocks while the client holds
\* MaxBufferedRecords records; num is local to the goroutine, so the
\* increment is taken in the same step.
WorkerProduce(w) ==
    /\ ~exited
    /\ wpc[w] = "produce"
    /\ TotalSent < MaxRecords
    /\ Buffered(w) < MaxBufferedRecords
    /\ sent' = [sent EXCEPT ![w] = Append(@, NewRecord(w))]
    /\ num' = [num EXCEPT ![w] = numInc(@)]
    /\ UNCHANGED <<fmtVars, flagVars, rateRecs, rateBytes, mainVars, reporterVars,
                   wpc, client, procVars, quietDrains>>

\* ------------------------------------------------------------ the promise
\* atomic.AddInt64(addr, delta): the value stored.
AddInt64(old, delta) == old + delta

\* The record counter bumped by the record's size.
recsDeltaBytes == recordSize

\* line 131: the delta added to rateRecs.
recsDelta == 1

\* The byte counter bumped by one per record.
bytesDeltaRecs == recsDelta

\* line 132: the delta added to rateBytes, int64(*recordSize).
bytesDelta == recordSize

\* lines 129-131: the client calls the promise of record k of worker w with
\* err; chk dies on an error, otherwise the first atomic add runs.
Callback(w, k) ==
    /\ ~exited
    /\ k \in DOMAIN sent[w]
    /\ sent[w][k].st = "buffered"
    /\ \E err \in Errs :
        IF chkDies(err)
        THEN /\ die("produce error")
             /\ sent' = [sent EXCEPT ![w][k].st = "failed", ![w][k].err = err]
             /\ UNCHANGED <<rateRecs, quietDrains>>
        ELSE /\ rateRecs' = AddInt64(rateRecs, recsDelta)
             /\ sent' = [sent EXCEPT ![w][k].st = "recsAdded", ![w][k].err = err]
             /\ quietDrains' = 0
             /\ UNCHANGED stderr
    /\ UNCHANGED <<fmtVars, flagVars, rateBytes, mainVars, reporterVars, wpc, client,
                   num, exited, exitCode>>

\* line 132: atomic.AddInt64(&rateBytes, int64(*recordSize)); the promise
\* returns and the client drops the record from its buffer.
CallbackAddBytes(w, k) ==
    /\ ~exited
    /\ k \in DOMAIN sent[w]
    /\ sent[w][k].st = "recsAdded"
    /\ rateBytes' = AddInt64(rateBytes, bytesDelta)
    /\ sent' = [sent EXCEPT ![w][k].st = "done"]
    /\ quietDrains' = 0
    /\ UNCHANGED <<fmtVars, flagVars, rateRecs, mainVars, reporterVars, wpc, client,
                   num, procVars>>

\* ------------------------------------------------------ printRate goroutine
\* quietDrains is a history variable: the number of drains in a row, the
\* one under way included, that began with no promise between its two adds
\* and with rateBytes = rateRecs * recordSize, and with no add since the
\* first of them began.
QuietStart == MidCallbacks = {} /\ rateBytes = rateRecs * recordSize

\* atomic.StoreInt64 in place of the swap: the old value is not returned.
StoreInt64(old, new) == [ret |-> new, val |-> new]

\* atomic.LoadInt64 in place of the swap: the counter is read, not reset.
LoadInt64(old, new) == [ret |-> old, val |-> old]

\* atomic.SwapInt64(addr, new): ret is the value returned, val the value
\* stored, in one atomic step.
SwapInt64(old, new) == [ret |-> old, val |-> new]

\* lines 54-55: a tick arrives; recs := atomic.SwapInt64(&rateRecs, 0)
SwapRecs ==
    /\ ~exited
    /\ rpc = "tick"
    /\ ticks < MaxTicks
    /\ ticks' = ticks + 1
    /\ recs' = SwapInt64(rateRecs, 0).ret
    /\ rateRecs' = SwapInt64(rateRecs, 0).val
    /\ rpc' = "swapBytes"
    /\ quietDrains' = IF QuietStart THEN quietDrains + 1 ELSE 0
    /\ UNCHANGED <<fmtVars, flagVars, rateBytes, mainVars, bytes, stdout, workerVars,
                   procVars>>

\* line 56: bytes := atomic.SwapInt64(&rateBytes, 0)
SwapBytes ==
    /\ ~exited
    /\ rpc = "swapBytes"
    /\ bytes' = SwapInt64(rateBytes, 0).ret
    /\ rateBytes' = SwapInt64(rateBytes, 0).val
    /\ rpc' = "print"
    /\ UNCHANGED <<fmtVars, flagVars, rateRecs, mainVars, ticks, recs, stdout,
                   workerVars, procVars, quietDrains>>

\* line 57: one line is printed from (bytes, recs).  stdout keeps the number
\* of lines printed and the sums of the two integers Printf was given, not
\* the rounded text of each line.
Printf ==
    /\ ~exited
    /\ rpc = "print"
    /\ stdout' = [lines |-> stdout.lines + 1,
                  bytes |-> stdout.bytes + bytes,
                  recs |-> stdout.recs + recs]
    /\ recs' = 0
    /\ bytes' = 0
    /\ rpc' = "tick"
    /\ UNCHANGED <<fmtVars, flagVars, rateRecs, rateBytes, mainVars, ticks, workerVars,
                   procVars, quietDrains>>

\* ------------------------------------------------------------------ process
\* os.Exit(0) in die.
OsExitStatusZero ==
    /\ ~exited
    /\ Dying
    /\ exited' = TRUE
    /\ exitCode' = 0
    /\ UNCHANGED <<fmtVars, flagVars, rateRecs, rateBytes, mainVars, reporterVars,
                   workerVars, stderr, quietDrains>>

\* line 33: os.Exit(1), reached by a goroutine that has printed in die.
OsExit ==
    /\ ~exited
    /\ Dying
    /\ exited' = TRUE
    /\ exitCode' = 1
    /\ UNCHANGED <<fmtVars, flagVars, rateRecs, rateBytes, mainVars, reporterVars,
                   workerVars, stderr, quietDrains>>

Next ==
    \/ MainConfigure
    \/ MainGoPrintRate
    \/ MainSpawn
    \/ MainWait
    \/ \E w \in WorkerIds : WorkerNewClient(w)
    \/ \E w \in WorkerIds : WorkerProduce(w)
    \/ \E w \in WorkerIds : \E k \in 1..MaxRecords : Callback(w, k)
    \/ \E w \in WorkerIds : \E k \in 1..MaxRecords : CallbackAddBytes(w, k)
    \/ SwapRecs
    \/ SwapBytes
    \/ Printf
    \/ OsExit

Spec == Init /\ [][Next]_vars

\* A goroutine that has printed in die goes on to call os.Exit: the Go
\* scheduler does not starve a runnable goroutine.
FairSpec == Spec /\ WF_vars(OsExit)

\* A run whose flags pass every check of main: 10-byte records, no
\* compression, the default log level, any number of clients.
ReporterInit ==
    /\ Init
    /\ recordSize = 10
    /\ compression = <<"n","o","n","e">>
    /\ logLevel = <<>>

\* The ticker keeps firing and printRate, which waits for nothing else,
\* takes each of its steps.
ReporterFairSpec ==
    /\ ReporterInit
    /\ [][Next]_vars
    /\ WF_vars(SwapRecs) /\ WF_vars(SwapBytes) /\ WF_vars(Printf)

\* ------------------------------------------------------------- formatValue
\* The zero byte make([]byte, n) fills a slice with.
ZeroByte == "NUL"

DigitChars == <<"0","1","2","3","4","5","6","7","8","9">>

\* An itoa that emits the low digit first.
RECURSIVE AppendIntReversed(_)
AppendIntReversed(x) ==
    IF x < 10 THEN <<DigitChars[x + 1]>>
    ELSE <<DigitChars[(x % 10) + 1]>> \o AppendIntReversed(x \div 10)

\* line 44: strconv.AppendInt(buf[:0], num, 10), for num >= 0 (num starts
\* at 0 and only grows).
RECURSIVE AppendInt(_)
AppendInt(x) ==
    IF x < 10 THEN <<DigitChars[x + 1]>>
    ELSE Append(AppendInt(x \div 10), DigitChars[(x % 10) + 1])

\* A tile without its delimiter.
TileNoSpace(x) == AppendInt(x)

\* lines 44-45: the tile b, the digits of num and one space.
Tile(x) == Append(AppendInt(x), " ")

\* A copy that reports len(src) whatever the room in dst.
CopyLenSrc(dstLen, srcLen) == srcLen

\* The number of bytes copy(dst, src) copies and returns.
CopyLen(dstLen, srcLen) == IF dstLen < srcLen THEN dstLen ELSE srcLen

\* dst after copy(dst[off:], src).
CopyAt(dst, off, src) ==
    [k \in 1..Len(dst) |->
        IF k > off /\ k <= off + CopyLen(Len(dst) - off, Len(src))
        THEN src[k - off]
        ELSE dst[k]]

\* lines 48-50 run to the end from (slice, n).
RECURSIVE Fill(_, _, _)
Fill(slice, off, src) ==
    IF off = Len(slice) THEN slice
    ELSE Fill(CopyAt(slice, off, src),
              off + CopyLen(Len(slice) - off, Len(src)), src)

\* formatValue(num, v) for a fresh slice of the given size, as a function.
FormatValue(x, size) ==
    Fill(CopyAt([k \in 1..size |-> ZeroByte], 0, Tile(x)),
         CopyLen(size, Len(Tile(x))), Tile(x))

\* A call formatValue(fnum, fv) on a fresh slice, as the worker loop makes
\* at lines 127-128; every other variable stays as at program start.
FormatInit ==
    /\ recordSize = 10
    /\ clients = 1
    /\ compression = <<"n","o","n","e">>
    /\ logLevel = <<>>
    /\ rateRecs = 0
    /\ rateBytes = 0
    /\ mainPc = "configure"
    /\ i = 0
    /\ wg = 0
    /\ rpc = "unstarted"
    /\ ticks = 0
    /\ recs = 0
    /\ bytes = 0
    /\ stdout = [lines |-> 0, bytes |-> 0, recs |-> 0]
    /\ wpc = [w \in WorkerIds |-> "unstarted"]
    /\ client = [w \in WorkerIds |-> NilClient]
    /\ num = [w \in WorkerIds |-> 0]
    /\ sent = [w \in WorkerIds |-> <<>>]
    /\ stderr = <<>>
    /\ exited = FALSE
    /\ exitCode = 0
    /\ quietDrains = 0
    /\ fpc = "call"
    /\ fnum \in FormatNumInputs
    /\ \E size \in 0..MaxLen : fv = [k \in 1..size |-> ZeroByte]
    /\ fb = <<>>
    /\ fn = 0

\* lines 43-47: build the tile b, n := copy(v, b)
FormatFirstCopy ==
    /\ fpc = "call"
    /\ fb' = Tile(fnum)
    /\ fv' = CopyAt(fv, 0, Tile(fnum))
    /\ fn' = CopyLen(Len(fv), Len(Tile(fnum)))
    /\ fpc' = "loop"
    /\ UNCHANGED <<progVars, fnum>>

\* lines 48-49: for n != len(v) { n += copy(v[n:], b) }
FormatLoop ==
    /\ fpc = "loop"
    /\ fn # Len(fv)
    /\ fv' = CopyAt(fv, fn, fb)
    /\ fn' = fn + CopyLen(Len(fv) - fn, Len(fb))
    /\ UNCHANGED <<progVars, fnum, fb, fpc>>

\* lines 48 and 51: the loop test fails and formatValue returns.
FormatReturn ==
    /\ fpc = "loop"
    /\ fn = Len(fv)
    /\ fpc' = "done"
    /\ UNCHANGED <<progVars, fnum, fv, fb, fn>>

FormatNext ==
    \/ FormatFirstCopy
    \/ FormatLoop
    \/ FormatReturn

\* formatValue runs on one goroutine with nothing to wait for, so it takes
\* its next step whenever it has one.
FormatSpec == FormatInit /\ [][FormatNext]_vars /\ WF_vars(FormatNext)

\* =================================================================== claims
\* All records submitted so far, as <<worker, index>> pairs.
Records == {<<w, k>> \in WorkerIds \X (1..MaxRecords) : k \in DOMAIN sent[w]}

\* Promises that have performed their add to rateRecs / to rateBytes.
RecIncrements == Cardinality({r \in Records : sent[r[1]][r[2]].st \in {"recsAdded", "done"}})
ByteIncrements == Cardinality({r \in Records : sent[r[1]][r[2]].st = "done"})

\* What the swaps have returned so far: the printed sums and the values of
\* the drain under way.
DrainedRecs == stdout.recs + recs
DrainedBytes == stdout.bytes + bytes

\* A promise has been called with an error.
FailureObserved == \E r \in Records : sent[r[1]][r[2]].st = "failed"

\* A worker's NewClient has failed.
ClientInitFailed == \E w \in WorkerIds : wpc[w] = "exit"

\* The flags main rejects, written without ConfigError.
InvalidConfig ==
    \/ recordSize <= 0
    \/ clients <= 0
    \/ ToLower(compression) \notin CompressionCases
    \/ ToLower(logLevel) \notin LogLevelCases

\* Nothing concurrent has begun: no reporter, no worker, no client, no record.
NothingStarted ==
    /\ rpc = "unstarted"
    /\ \A w \in WorkerIds : wpc[w] = "unstarted" /\ client[w] = NilClient /\ sent[w] = <<>>
    /\ wg = 0

\* C1: what the swaps have returned plus what the counter holds equals the
\* number of promises that have added to it, for records and, times
\* recordSize, for bytes: no add is lost or counted twice.
C1_Conservation ==
    /\ DrainedRecs + rateRecs = RecIncrements
    /\ DrainedBytes + rateBytes = ByteIncrements * recordSize

\* C1 witness: two workers, a drain has returned a record, the counter holds
\* another one whose promise is between its two adds.
C1_Witness ==
    /\ clients = 2
    /\ stdout.recs >= 1
    /\ rateRecs >= 1
    /\ MidCallbacks # {}

\* C2 as claimed: every pair a drain returns has bytes = records * recordSize.
C2_Original == rpc = "print" => bytes = recs * recordSize

\* C2 amended: each swap is atomic on its own counter, the pair is not; a
\* drain that began with the counters aligned and no promise between its
\* adds, and that no add has interleaved with, returns bytes = records *
\* recordSize, and every drain returns a non-negative byte count that is a
\* multiple of recordSize.
C2_QuietDrainPair ==
    rpc = "print" =>
        /\ quietDrains >= 1 => bytes = recs * recordSize
        /\ recs >= 0
        /\ bytes >= 0
        /\ bytes % recordSize = 0

\* C2 witness: a quiet drain has returned two records.
C2_Witness == rpc = "print" /\ quietDrains >= 1 /\ recs = 2

\* C3: the first drain, run after k promises have completed and with no add
\* since it began, returns (k, k * recordSize), and a drain that follows a
\* quiet drain with no add in between returns (0, 0).
C3_DrainAfterK ==
    /\ (rpc = "print" /\ quietDrains >= 1 /\ stdout.lines = 0) =>
           /\ recs = ByteIncrements
           /\ bytes = ByteIncrements * recordSize
    /\ (rpc = "print" /\ quietDrains >= 2) => recs = 0 /\ bytes = 0

\* C3 witness: the first drain returned (2, 2 * recordSize) and the second,
\* right after it, has returned its pair.
C3_Witness ==
    /\ rpc = "print"
    /\ quietDrains = 2
    /\ stdout = [lines |-> 1, bytes |-> 2 * recordSize, recs |-> 2]

\* C4: a record whose promise got an error is never counted: it stays
\* failed, the counters and the drains hold only records acknowledged with
\* nil, and the process goes on to exit, with status 1.
C4_FailedRecordFatalUncounted ==
    /\ [](\A r \in Records :
              sent[r[1]][r[2]].err = "err" => sent[r[1]][r[2]].st = "failed")
    /\ [](DrainedRecs + rateRecs =
              Cardinality({r \in Records : sent[r[1]][r[2]].err = "nil"}))
    /\ [](DrainedBytes + rateBytes <=
              recordSize * Cardinality({r \in Records : sent[r[1]][r[2]].err = "nil"}))
    /\ (\E r \in Records : sent[r[1]][r[2]].err = "err")
           ~> (exited /\ exitCode = 1)

\* C4 witness: the process has exited after a failed record, with another
\* record counted.
C4_Witness ==
    /\ exited
    /\ FailureObserved
    /\ DrainedRecs + rateRecs >= 1

\* C5 as claimed: once a promise has observed a failure no worker submits
\* another record.
C5_Original == [][FailureObserved => sent' = sent]_vars

\* C5 amended: a promise that observes a failure leads to the process
\* exiting with status 1, and once the process has exited no worker submits
\* another record.
C5_FailFastOnExit ==
    /\ [][exited => sent' = sent]_vars
    /\ [](FailureObserved /\ exited => exitCode = 1)
    /\ FailureObserved ~> (exited /\ exitCode = 1)

\* C5 witness: the process has exited after a failure while a sibling
\* worker was started and had submitted.
C5_Witness ==
    /\ exited
    /\ \E w1, w2 \in WorkerIds :
        /\ w1 # w2
        /\ \E k \in DOMAIN sent[w1] : sent[w1][k].st = "failed"
        /\ sent[w2] # <<>>

\* C6 as claimed: flag values outside the listed ones, compared as written,
\* keep everything from starting.
C6_Original ==
    (\/ recordSize <= 0
     \/ clients <= 0
     \/ compression \notin CompressionCases
     \/ logLevel \notin LogLevelCases) => NothingStarted

\* C6 amended: with the compression and log-level values compared after
\* lower-casing, rejected flags keep the reporter, every worker, every
\* client and every record from starting, and the process can only exit
\* with status 1, having printed the message of the first failed check.
C6_ValidationFirst ==
    InvalidConfig =>
        /\ NothingStarted
        /\ mainPc \in {"configure", "exit"}
        /\ exited => (exitCode = 1 /\ Len(stderr) = 1)
        /\ mainPc = "exit" => stderr # <<>>

\* C6 witness: only num-clients is wrong, and the process has exited.
C6_Witness ==
    /\ clients <= 0
    /\ recordSize > 0
    /\ ToLower(compression) \in CompressionCases
    /\ ToLower(logLevel) \in LogLevelCases
    /\ exited

\* C7: the k-th record a worker submits is built from sequence number k-1,
\* whatever became of the earlier ones, and the counter is the number of
\* records submitted.
C7_SequenceNumbers ==
    \A w \in WorkerIds :
        /\ num[w] = Len(sent[w])
        /\ \A k \in DOMAIN sent[w] : sent[w][k].seq = k - 1

\* C7 witness: a worker has submitted a second record after its first one
\* failed.
C7_Witness ==
    \E w \in WorkerIds : Len(sent[w]) = 2 /\ sent[w][1].st = "failed"

\* C8 as claimed: any two workers hold the same client, and a started
\* worker finds the one client already constructed.
C8_Original ==
    /\ \A w1, w2 \in WorkerIds :
           (client[w1] # NilClient /\ client[w2] # NilClient) => client[w1] = client[w2]
    /\ \A w \in WorkerIds :
           wpc[w] # "unstarted" => \E v \in WorkerIds : client[v] # NilClient

\* C8 amended: every worker constructs its own client after it has started,
\* so the clients of two workers differ, at most num-clients clients exist,
\* none exists before the first worker starts, and every record is
\* submitted through the client of the worker that built it.
C8_ClientPerWorker ==
    /\ \A w1, w2 \in WorkerIds :
           (w1 # w2 /\ client[w1] # NilClient /\ client[w2] # NilClient)
               => client[w1] # client[w2]
    /\ \A w \in WorkerIds :
           /\ client[w] # NilClient => (wpc[w] = "produce" /\ w < clients)
           /\ \A k \in DOMAIN sent[w] :
                  sent[w][k].via = client[w] /\ client[w] # NilClient
    /\ mainPc \in {"configure", "goPrintRate", "exit"} =>
           \A w \in WorkerIds : client[w] = NilClient

\* C8 witness: two workers each hold a client and have each submitted a
\* record.
C8_Witness ==
    /\ client[0] # NilClient /\ client[1] # NilClient
    /\ sent[0] # <<>> /\ sent[1] # <<>>

\* Valid flags, every client initialised so far, no promise failed.
NormalOperation == ~InvalidConfig /\ ~ClientInitFailed /\ ~FailureObserved

\* C9: in normal operation the process has not exited, main has not
\* returned (wg.Wait finds one count per worker), and no worker has left
\* its loop.
C9_NormalNeverExits ==
    NormalOperation =>
        /\ ~exited
        /\ mainPc # "returned"
        /\ mainPc = "blocked" => (wg = clients /\ wg > 0)
        /\ \A w \in WorkerIds : wpc[w] \in {"unstarted", "newClient", "produce"}

\* C9 witness: normal operation with main blocked in wg.Wait, every record
\* acknowledged and every tick served.
C9_Witness ==
    /\ NormalOperation
    /\ mainPc = "blocked"
    /\ clients = 2
    /\ ByteIncrements = MaxRecords
    /\ stdout.lines = MaxTicks

\* Every record submitted has been acknowledged with nil and its promise
\* has returned, and the reporter waits for its next tick.
AllAcknowledged ==
    /\ rpc = "tick"
    /\ \A r \in Records : sent[r[1]][r[2]].st = "done"

\* C10 as claimed: after T >= 1 ticks, T lines are printed and their record
\* counts add up to the number of acknowledged submissions.
C10_Original ==
    (AllAcknowledged /\ ticks >= 1) =>
        (stdout.lines = ticks /\ stdout.recs = TotalSent)

\* C10 amended: after T ticks, T lines are printed, and their record counts
\* plus what the record counter still holds add up to the number of
\* acknowledged submissions; likewise for bytes.
C10_EndToEnd ==
    AllAcknowledged =>
        /\ stdout.lines = ticks
        /\ stdout.recs + rateRecs = TotalSent
        /\ stdout.bytes + rateBytes = TotalSent * recordSize

\* C10 witness: two workers, two lines printed, a record reported and
\* another acknowledged since the last line.
C10_Witness ==
    /\ AllAcknowledged
    /\ clients = 2
    /\ ticks = 2
    /\ stdout.recs = 1
    /\ rateRecs = 1

\* The number of decimal digits of x >= 0, written without AppendInt.
NumDigits(x) ==
    CHOOSE d \in 1..9 : x < 10^d /\ (d = 1 \/ x >= 10^(d - 1))

\* Byte j (from 0) of the tile of x: digit j from the left of x, and a
\* space after the last digit.
TileByte(x, j) ==
    IF j = NumDigits(x) THEN " "
    ELSE DigitChars[((x \div 10^(NumDigits(x) - 1 - j)) % 10) + 1]

\* C11: when formatValue returns, every byte idx of the slice holds byte
\* (idx mod L) of the tile "<digits of num> ", L the tile's length; the
\* slice keeps its length and no byte of it is left unfilled.
C11_TiledOutput ==
    fpc = "done" =>
        /\ fn = Len(fv)
        /\ \A idx \in 0..Len(fv) - 1 :
               fv[idx + 1] = TileByte(fnum, idx % (NumDigits(fnum) + 1))

\* C11 witness: num 12 in a slice of 5 bytes: one whole tile and a
\* truncated one.
C11_Witness ==
    /\ fpc = "done"
    /\ fnum = 12
    /\ fv = <<"1", "2", " ", "1", "2">>

\* C12: a worker whose NewClient failed holds no client, has called die
\* and never submits a record; a worker in its produce loop holds a client;
\* and the process goes on to exit, with status 1.
C12_ClientInitFatal ==
    /\ [](\A w \in WorkerIds :
              /\ wpc[w] = "exit" => (client[w] = NilClient /\ sent[w] = <<>>)
              /\ wpc[w] = "produce" => client[w] # NilClient
              /\ sent[w] # <<>> => client[w] # NilClient)
    /\ [](ClientInitFailed => Len(stderr) >= 1)
    /\ [](ClientInitFailed /\ exited => exitCode = 1)
    /\ ClientInitFailed ~> (exited /\ exitCode = 1)

\* C12 witness: the second worker's client failed to initialise after the
\* first worker had submitted, and the process has exited.
C12_Witness ==
    /\ exited
    /\ wpc[1] = "exit"
    /\ sent[0] # <<>>
    /\ sent[1] = <<>>

\* The limit main gives the client, written out: floor(50 MiB / recordSize) + 1.
ClaimedLimit == 52428800 \div recordSize + 1

\* Worker w is in its loop with the process running and the model's record
\* budget not used up.
InLoop(w) == ~exited /\ wpc[w] = "produce" /\ TotalSent < MaxRecords

\* C14: a worker in its loop whose client holds fewer records than the
\* limit can submit its next record at once, whatever the number of its
\* earlier records still unacknowledged.
C14_Pipelining ==
    \A w \in WorkerIds :
        (InLoop(w) /\ Buffered(w) < ClaimedLimit) => ENABLED WorkerProduce(w)

\* C14 witness: two records of one worker are in flight, neither promise
\* called yet.
C14_Witness ==
    \E w \in WorkerIds :
        /\ Len(sent[w]) = 2
        /\ sent[w][1].st = "buffered"
        /\ sent[w][2].st = "buffered"

\* C15: a client never holds more than floor(50 MiB / recordSize) + 1
\* records, so never more than 50 MiB + recordSize of payload; at the limit
\* the worker cannot submit, and while it is there it neither dies nor
\* advances num; below the limit it can submit again.
C15_Backpressure ==
    /\ [](\A w \in WorkerIds : recordSize > 0 =>
              /\ Buffered(w) <= ClaimedLimit
              /\ Buffered(w) * recordSize <= 52428800 + recordSize
              /\ (InLoop(w) /\ Buffered(w) = ClaimedLimit)
                     => ~ENABLED WorkerProduce(w)
              /\ (InLoop(w) /\ Buffered(w) < ClaimedLimit)
                     => ENABLED WorkerProduce(w))
    /\ [][\A w \in WorkerIds :
              (recordSize > 0 /\ wpc[w] = "produce" /\ Buffered(w) = ClaimedLimit)
                  => (num'[w] = num[w] /\ wpc'[w] = wpc[w]
                      /\ Len(sent'[w]) = Len(sent[w]))]_vars

\* C15 witness: with 64 MiB records (limit 1) a worker has submitted its
\* second record after the first one's promise returned, and is at the
\* limit again.
C15_Witness ==
    /\ recordSize = 67108864
    /\ Len(sent[0]) = 2
    /\ sent[0][1].st = "done"
    /\ sent[0][2].st = "buffered"
    /\ Buffered(0) = ClaimedLimit

\* A step of the reporter once started: a swap or the print.
ReporterStep == rpc # "unstarted" /\ rpc' # rpc

\* C16: a reporter step leaves the workers, their records, the flags and
\* the process state as they are (so it disables no submission); a
\* submission by worker w changes num and the records of w alone, by one,
\* and neither counter nor the reporter; and a counter decreases only in a
\* swap of the reporter.
C16_OneWayFlow ==
    [][/\ ReporterStep => UNCHANGED <<workerVars, flagVars, procVars, mainVars>>
       /\ \A w \in WorkerIds :
              Len(sent'[w]) > Len(sent[w]) =>
                  /\ UNCHANGED <<rateRecs, rateBytes, reporterVars>>
                  /\ num'[w] = num[w] + 1
                  /\ Len(sent'[w]) = Len(sent[w]) + 1
                  /\ \A u \in WorkerIds \ {w} :
                         num'[u] = num[u] /\ sent'[u] = sent[u]
       /\ (rateRecs' < rateRecs \/ rateBytes' < rateBytes) =>
              (ReporterStep /\ rpc \in {"tick", "swapBytes"})]_vars

\* C16 witness: the reporter is between its swaps, having drained a record,
\* while both workers have records submitted.
C16_Witness ==
    /\ rpc = "swapBytes"
    /\ recs >= 1
    /\ sent[0] # <<>>
    /\ sent[1] # <<>>

\* C17: while the reporter has a tick left to serve, the c-th
\* acknowledgment whose promise has added to both counters is later part of
\* what the swaps of both counters have returned, unless the process exits
\* first.
C17_EventualReporting ==
    \A c \in 1..MaxRecords :
        (ByteIncrements >= c /\ RecIncrements >= c /\ ticks < MaxTicks)
            ~> ((DrainedRecs >= c /\ DrainedBytes >= c * recordSize) \/ exited)

\* C17 witness: both acknowledged records have been drained, one per tick,
\* and the process runs on.
C17_Witness ==
    /\ ~exited
    /\ ByteIncrements = 2
    /\ stdout = [lines |-> 2, bytes |-> 2 * recordSize, recs |-> 2]
    /\ ticks = 2

\* The shorter of the tile lengths of x and y.
ShorterTile(x, y) ==
    IF NumDigits(x) < NumDigits(y) THEN NumDigits(x) + 1 ELSE NumDigits(y) + 1

\* The longer of the tile lengths of x and y.
LongerTile(x, y) ==
    IF NumDigits(x) < NumDigits(y) THEN NumDigits(y) + 1 ELSE NumDigits(x) + 1

\* C13: the slice formatValue has filled for num differs from the one it
\* fills for any other num and the same size, at a position inside the
\* first (shorter) tile, when the size holds the longer of the two tiles.
C13_Distinguishable ==
    fpc = "done" =>
        \A other \in FormatNumInputs :
            (other # fnum /\ Len(fv) >= LongerTile(fnum, other)) =>
                \E k \in 1..ShorterTile(fnum, other) :
                    fv[k] # FormatValue(other, Len(fv))[k]

\* C13 witness: num 1 in 3 bytes, to be told from 11 and from 10.
C13_Witness ==
    /\ fpc = "done"
    /\ fnum = 1
    /\ Len(fv) = 3
    /\ 11 \in FormatNumInputs

\* C18: every iteration of the fill loop makes n strictly larger, n never
\* exceeds the slice's length, the loop is left with n equal to it, and
\* formatValue returns, for every num and every length tried, 0 included.
C18_FillLoopTerminates ==
    /\ [][FormatLoop => fn' > fn]_vars
    /\ [](fn <= Len(fv))
    /\ [](fpc = "done" => fn = Len(fv))
    /\ (fpc = "call") ~> (fpc = "done")

\* C18 witness: the loop has run twice with a two-byte tile in a slice of
\* five bytes, and its next copy is cut short.
C18_Witness ==
    /\ fpc = "loop"
    /\ Len(fb) = 2
    /\ Len(fv) = 5
    /\ fn = 4

====
